---- MODULE Spec2Model ----
(***************************************************************************)
(* A model of the stonks-boss Discord bot: the Bollinger-band calculator   *)
(* (cogs/analysis.py, cogs/finance_cog.py), ticker resolution              *)
(* (cogs/utils.py) and the slash-command handlers of the three cogs.       *)
(*                                                                         *)
(* Numbers.  Prices are whole price units.  A pandas float is modelled as  *)
(* a fixed-point number counted in 1/Unit of a price unit (Unit = 1000, so *)
(* one digit more than the two digits round(v, 2) keeps), or as NaN.       *)
(***************************************************************************)
EXTENDS Integers, Sequences, FiniteSets, TLC

VARIABLES
    series,     \* SpecCalc: what yf.download did (raised, or a Close column)
    calcPc,     \* SpecCalc: "input", then the cog whose method was applied
    calcOut,    \* SpecCalc: what get_bollinger_bands returned or raised
    tkIn,       \* SpecTicker: <<ticker, exchange>> given to get_full_ticker
    tkPc,       \* SpecTicker: "input" | "done"
    tkOut,      \* SpecTicker: the string get_full_ticker returned
    program,    \* Spec: the entry script that runs, "main.py" or "bot.py"
    ready,      \* Spec: on_ready has run
    loaded,     \* Spec: the cogs on_ready loaded
    inv,        \* Spec: the command invocations, by arrival number
    disk,       \* Spec: the files of the working and temporary directories
    requests,   \* Spec: the provider requests issued, with the session used
    figures,    \* Spec: pyplot's registry of open figures (by invocation)
    gcf         \* Spec: pyplot's current figure, 0 when there is none

calcVars == <<series, calcPc, calcOut>>
tickerVars == <<tkIn, tkPc, tkOut>>
botVars == <<program, ready, loaded, inv, disk, requests, figures, gcf>>
vars == <<calcVars, tickerVars, botVars>>

---------------------------------------------------------------------------
(* Bounds of the model *)

\* longest fetched series (3 months of daily rows is about 63; 42 already
\* exceeds the 40-row trim)
MaxLen == 42
\* largest price of the generated series
MaxPrice == 12
\* number of command invocations that arrive
MaxInv == 2

(* Program constants *)

\* rolling(window=20)
Window == 20
\* stock_data[-40:]
TrimRows == 40
\* stock_data[-20:]
GraphRows == 20
\* MA +/- STD * 2
BandWidth == 2
\* round(v, 2)
Decimals == 2

RECURSIVE Pow10(_)
Pow10(k) == IF k = 0 THEN 1 ELSE 10 * Pow10(k - 1)

\* fixed-point resolution of a modelled float: one digit below what round keeps
Unit == Pow10(Decimals + 1)

---------------------------------------------------------------------------
(* Floats: a number in units of 1/Unit, or NaN *)

NaN == [nan |-> TRUE, v |-> 0]
Num(n) == [nan |-> FALSE, v |-> n]

\* float + float, float - float, float * int: NaN is absorbing
FAdd(x, y) == IF x.nan \/ y.nan THEN NaN ELSE Num(x.v + y.v)
FSub(x, y) == IF x.nan \/ y.nan THEN NaN ELSE Num(x.v - y.v)
FScale(x, k) == IF x.nan THEN NaN ELSE Num(x.v * k)

\* Python round(v, ndigits): to the nearest multiple of 10^-ndigits, ties to
\* the even one; round(nan, 2) is nan
RoundUnits(n, q) ==
    LET lo == (n \div q) * q
        r  == n - lo
    IN  IF 2 * r < q THEN lo
        ELSE IF 2 * r > q THEN lo + q
        ELSE IF (lo \div q) % 2 = 0 THEN lo ELSE lo + q

Round(x, nd) ==
    IF x.nan THEN NaN ELSE Num(RoundUnits(x.v, Unit \div Pow10(nd)))

\* floor of the square root
RECURSIVE IsqrtIter(_, _, _)
IsqrtIter(n, lo, hi) ==
    IF hi - lo <= 1 THEN lo
    ELSE LET mid == (lo + hi) \div 2
         IN  IF mid * mid <= n THEN IsqrtIter(n, mid, hi)
             ELSE IsqrtIter(n, lo, mid)

Isqrt(n) == IsqrtIter(n, 0, IF n < 46340 THEN n + 1 ELSE 46340)

---------------------------------------------------------------------------
(* pandas: slices and rolling windows over the Close column (a sequence of  *)
(* whole prices, oldest first)                                             *)

\* df[-k:]
LastRows(s, k) == IF Len(s) <= k THEN s ELSE SubSeq(s, Len(s) - k + 1, Len(s))

RECURSIVE SumRange(_, _, _)
SumRange(s, a, b) == IF a > b THEN 0 ELSE s[a] + SumRange(s, a + 1, b)

RECURSIVE SumSqRange(_, _, _)
SumSqRange(s, a, b) == IF a > b THEN 0 ELSE s[a] * s[a] + SumSqRange(s, a + 1, b)

\* Series.rolling(window=w).mean() at row i: NaN until w rows are available
RollingMeanShortMutant(c, i, w) ==
    IF i < w THEN NaN
    ELSE Num((SumRange(c, i - w + 1, i) * Unit) \div (w - 1))

RollingMean(c, i, w) ==
    IF i < w THEN NaN
    ELSE Num((SumRange(c, i - w + 1, i) * Unit) \div w)

\* w * sum(x^2) - sum(x)^2 = w * (sum of squared deviations from the mean)
Spread(c, i, w) ==
    w * SumSqRange(c, i - w + 1, i)
        - SumRange(c, i - w + 1, i) * SumRange(c, i - w + 1, i)

\* Series.rolling(window=w).std() at row i: sample standard deviation
\* (ddof=1, pandas' default), NaN until w rows are available
RollingStdPopulationMutant(c, i, w) ==
    IF i < w THEN NaN
    ELSE Num(Isqrt((Spread(c, i, w) * ((Unit * Unit) \div w)) \div w))

RollingStd(c, i, w) ==
    IF i < w THEN NaN
    ELSE Num(Isqrt((Spread(c, i, w) * ((Unit * Unit) \div w)) \div (w - 1)))

---------------------------------------------------------------------------
(* The Bollinger computation *)

\* stock_data["Upper Band"] = stock_data["MA"] + (stock_data["STD"] * 2)
UpperBand(ma, sd) == FAdd(ma, FScale(sd, BandWidth))

\* stock_data["Lower Band"] = stock_data["MA"] - (stock_data["STD"] * 2)
LowerBand(ma, sd) == FSub(ma, FScale(sd, BandWidth))

\* the frame after the MA, STD, Upper Band and Lower Band columns are added
BollingerFrame(c) ==
    [i \in 1..Len(c) |->
        LET ma == RollingMean(c, i, Window)
            sd == RollingStd(c, i, Window)
        IN  [Close |-> Num(c[i] * Unit), MA |-> ma, STD |-> sd,
             Upper |-> UpperBand(ma, sd), Lower |-> LowerBand(ma, sd)]]

NoLatest == [Close |-> NaN, Upper |-> NaN, Lower |-> NaN]

\* the three columns of tail(1), as a dictionary
LatestOf(frame) ==
    LET last == frame[Len(frame)]
    IN  [Close |-> last.Close, Upper |-> last.Upper, Lower |-> last.Lower]

\* {k: round(v, 2) for k, v in latest_data.items()}
RoundLatest(d) ==
    [Close |-> Round(d.Close, Decimals), Upper |-> Round(d.Upper, Decimals),
     Lower |-> Round(d.Lower, Decimals)]

\* A download is what yf.download did: it raised, or it returned a frame
\* whose Close column is close (empty when the provider has no rows).
Download(raised, close) == [raised |-> raised, close |-> close]

\* AnalysisCog.get_bollinger_bands: the value returned, or the exception raised
AnalysisKeptFrameMutant(dl) ==
    IF dl.raised \/ dl.close = <<>>
    THEN [status |-> "raise", error |-> "Failed to fetch data",
          latest |-> NoLatest, graph |-> <<>>]
    ELSE LET kept == IF \E j \in DOMAIN inv : inv[j].close # <<>>
                     THEN inv[CHOOSE j \in DOMAIN inv : inv[j].close # <<>>].close
                     ELSE <<>>
             frame == BollingerFrame(LastRows(kept \o dl.close, TrimRows))
         IN  [status |-> "return", error |-> "",
              latest |-> RoundLatest(LatestOf(frame)),
              graph |-> LastRows(frame, GraphRows)]

AnalysisTrimShortMutant(dl) ==
    IF dl.raised \/ dl.close = <<>>
    THEN [status |-> "raise", error |-> "Failed to fetch data",
          latest |-> NoLatest, graph |-> <<>>]
    ELSE LET frame == BollingerFrame(LastRows(dl.close, Window - 1))
         IN  [status |-> "return", error |-> "",
              latest |-> RoundLatest(LatestOf(frame)),
              graph |-> LastRows(frame, GraphRows)]

AnalysisGetBollingerBands(dl) ==
    IF dl.raised \/ dl.close = <<>>
    THEN [status |-> "raise", error |-> "Failed to fetch data",
          latest |-> NoLatest, graph |-> <<>>]
    ELSE LET frame == BollingerFrame(LastRows(dl.close, TrimRows))
         IN  [status |-> "return", error |-> "",
              latest |-> RoundLatest(LatestOf(frame)),
              graph |-> LastRows(frame, GraphRows)]

\* DataFrame.to_string(index=False) of tail(1): the three floats printed with
\* six decimals (exact at the model's resolution), or the text pandas prints
\* for a frame without rows
DataFrameToString(frame) ==
    IF frame = <<>>
    THEN [status |-> "return", error |-> "", latest |-> NoLatest, graph |-> <<>>]
    ELSE [status |-> "return", error |-> "", latest |-> LatestOf(frame),
          graph |-> <<>>]

\* FinanceCog.get_bollinger_bands: no try, no trim, no rounding
FinanceGetBollingerBands(dl) ==
    IF dl.raised
    THEN [status |-> "raise", error |-> "download", latest |-> NoLatest,
          graph |-> <<>>]
    ELSE DataFrameToString(BollingerFrame(dl.close))

---------------------------------------------------------------------------
(* Ticker resolution (cogs/utils.py) *)

exchange_suffixes ==
    ("NYSE" :> "") @@ ("NASDAQ" :> "") @@ ("Euronext Paris" :> ".PA")
    @@ ("BÃ¶rse Frankfurt" :> ".F") @@ ("London Stock Exchange" :> ".L")
    @@ ("BSE" :> ".BO") @@ ("Tokyo Stock Exchange" :> ".T")
    @@ ("Toronto Stock Exchange" :> ".TO")
    @@ ("Hong Kong Stock Exchange" :> ".HK")

\* dict.get(key, default)
DictGet(d, key, default) == IF key \in DOMAIN d THEN d[key] ELSE default

\* f"{ticker}{exchange_suffixes.get(exchange, '')}"
GetFullTickerPrefixMutant(ticker, exchange) ==
    DictGet(exchange_suffixes, exchange, "") \o ticker

get_full_ticker(ticker, exchange) ==
    ticker \o DictGet(exchange_suffixes, exchange, "")

---------------------------------------------------------------------------
(* Inputs *)

Prices == {1, 2, MaxPrice}

\* the generated Close columns: constant, ramp 1..n, alternating, last-row
\* spike, and a step whose early rows differ from the last Window rows
GenSeries(kind, n, a, b) ==
    [i \in 1..n |->
        CASE kind = "const" -> a
          [] kind = "ramp"  -> i
          [] kind = "alt"   -> IF i % 2 = 1 THEN a ELSE b
          [] kind = "spike" -> IF i = n THEN b ELSE a
          [] kind = "step"  -> IF i <= n - Window THEN a ELSE b]

SeriesKinds == {"const", "ramp", "alt", "spike", "step"}

SeriesInputs ==
    {GenSeries(k, n, a, b) : k \in SeriesKinds, n \in 0..MaxLen,
                             a \in Prices, b \in Prices}

TickerInputs == {"AAPL", "aapl", "7203", "ORA", "VOD", "RY"}

ExchangeInputs == DOMAIN exchange_suffixes \cup {"Unknown Exchange", "nyse"}

---------------------------------------------------------------------------
(* The bot: provider, session, disk, pyplot and the command invocations *)

Invs == 1..MaxInv

\* what the users type: the i-th invocation names the i-th ticker and exchange
CommandInputs ==
    <<<<"AAPL", "NYSE">>, <<"7203", "Tokyo Stock Exchange">>,
      <<"ORA", "Euronext Paris">>, <<"VOD", "London Stock Exchange">>>>

InputOf(i) == CommandInputs[((i - 1) % Len(CommandInputs)) + 1]

\* the commands each cog registers
CogCommands(cog) ==
    CASE cog = "stocks"   -> {"price", "basic_info"}
      [] cog = "analysis" -> {"bollinger", "analytics"}
      [] cog = "finance"  -> {"price", "basic_info", "bollinger"}

\* one operation of a handler: what it does, the thread it runs on and, for a
\* provider request, the session it is given ("shared": the process's
\* CachedLimiterSession; "none": session=None; "default": no session
\* argument; "-": not a provider request)
Op(op, thread, session) == [op |-> op, thread |-> thread, session |-> session]

\* A block of steps runs until step fp raises (fp = 0: none raises).
Attempted(steps, fp) == IF fp = 0 THEN steps ELSE SubSeq(steps, 1, fp)
Reached(fp, k) == fp = 0 \/ fp >= k
Passed(fp, k) == fp = 0 \/ fp > k

RequestsOf(ops) ==
    {[site |-> ops[k].op, session |-> ops[k].session] :
        k \in {j \in 1..Len(ops) : ops[j].session # "-"}}

\* what yf.Ticker(ticker).info does: it raises, is None, has no "symbol" key,
\* names another symbol, or names ticker.upper()
InfoOutcomes == {"raise", "none", "nosymbol", "other", "match"}

\* is_valid_ticker (cogs/utils.py, FinanceCog.is_valid_ticker)
is_valid_ticker(info) ==
    IF info = "raise" THEN FALSE
    ELSE info # "none" /\ info # "nosymbol" /\ info = "match"

\* the downloads the bollinger commands of the bot are given: a provider
\* error, no rows, twenty rows (SpecCalc covers every other length)
BotDownloads ==
    {Download(TRUE, <<>>), Download(FALSE, <<>>),
     Download(FALSE, GenSeries("ramp", Window, 1, 1))}

File(name, of) == [name |-> name, of |-> of]
\* open(name, "w") and write: replaces the file of that name
WriteFile(d, name, of) == {f \in d : f.name # name} \cup {File(name, of)}
RemoveFile(d, name) == {f \in d : f.name # name}
\* tempfile.NamedTemporaryFile(suffix=".gif", delete=False): a fresh name
TempName(r) == "tmp_" \o r.ticker \o ".gif"

\* SQLiteCache("yfinance.cache"), made when the session is constructed
CacheFile == File("yfinance.cache", "")

IdleInv ==
    [cmd |-> "none", cog |-> "none", pc |-> "idle", ticker |-> "",
     valid |-> FALSE, ops |-> <<>>, sent |-> <<>>,
     failed |-> FALSE, raised |-> FALSE, wres |-> "none", saved |-> 0,
     close |-> <<>>, latest |-> NoLatest, graph |-> <<>>]

\* is_valid_ticker(ticker, session=self.session) as the handlers call it
Validated(r, full, info) ==
    [r EXCEPT !.ticker = full, !.valid = is_valid_ticker(info),
              !.ops = Append(@, Op("validate", "event", "shared"))]

\* if not is_valid_ticker(...): send the message and return
ShortCircuitNeverMutant(valid) == FALSE

ShortCircuits(valid) == ~valid

InvalidReplyFallThroughMutant(r) ==
    [r EXCEPT !.sent = Append(Append(@, "invalid"), "error"), !.pc = "done"]

InvalidReply(r) == [r EXCEPT !.sent = Append(@, "invalid"), !.pc = "done"]

ResultReply(r) == [r EXCEPT !.sent = Append(@, "result"), !.pc = "done"]

\* except Exception as e: await interaction.followup.send("An error occurred")
ErrorReplyPropagateMutant(r) == [r EXCEPT !.raised = TRUE, !.pc = "done"]

ErrorReply(r) == [r EXCEPT !.sent = Append(@, "error"), !.pc = "done"]

\* the steps of a block that run, and whether one of them raised
Tried(r, steps, fp) ==
    [r EXCEPT !.ops = @ \o Attempted(steps, fp), !.failed = @ \/ fp # 0]

\* try: steps; send the result / except: send the error
TryExcept(r, steps, fp) ==
    IF fp # 0 THEN ErrorReply(Tried(r, steps, fp))
    ELSE ResultReply(Tried(r, steps, fp))

BotIdle ==
    /\ program = "none"
    /\ ready = FALSE
    /\ loaded = {}
    /\ inv = [i \in Invs |-> IdleInv]
    /\ disk = {}
    /\ requests = {}
    /\ figures = {}
    /\ gcf = 0

\* get_analyst_data: get_calendar(), financials.to_csv("financials.csv"),
\* actions.to_csv("actions.csv"), recommendations_summary: four provider
\* requests, two of them written to a CSV file
AnalystSteps(thread, session) ==
    <<Op("calendar", thread, session), Op("financials", thread, session),
      Op("actions", thread, session), Op("recommendations", thread, session)>>

AnalystFiles(d, ticker, fp) ==
    LET d1 == IF Passed(fp, 2) THEN WriteFile(d, "financials.csv", ticker) ELSE d
    IN  IF Passed(fp, 3) THEN WriteFile(d1, "actions.csv", ticker) ELSE d1

---------------------------------------------------------------------------
(* Startup *)

\* main.py on_ready: load cogs.stocks, then cogs.analysis, whose import runs
\* AnalysisCog(None, None).get_analyst_data("AAPL"); when that raises the
\* extension is not loaded
OnReadyMain ==
    /\ program = "main.py" /\ ~ready
    /\ \E fp \in 0..4 :
        /\ requests' = requests \cup
               RequestsOf(Attempted(AnalystSteps("event", "none"), fp))
        /\ disk' = AnalystFiles(disk, "AAPL", fp)
        /\ loaded' = IF fp = 0 THEN {"stocks", "analysis"} ELSE {"stocks"}
    /\ ready' = TRUE
    /\ UNCHANGED <<program, inv, figures, gcf, calcVars, tickerVars>>

\* bot.py on_ready: load cogs.finance_cog
OnReadyBot ==
    /\ program = "bot.py" /\ ~ready
    /\ loaded' = {"finance"}
    /\ ready' = TRUE
    /\ UNCHANGED <<program, inv, disk, requests, figures, gcf, calcVars,
                   tickerVars>>

---------------------------------------------------------------------------
(* The handlers, one action per stretch between two awaits *)

\* await interaction.response.defer(), the first line of every handler
Defer(i) ==
    /\ ready
    /\ inv[i].pc = "idle"
    /\ i > 1 => inv[i - 1].pc # "idle"
    /\ \E cog \in loaded : \E cmd \in CogCommands(cog) :
        inv' = [inv EXCEPT ![i] =
                   [IdleInv EXCEPT !.cmd = cmd, !.cog = cog, !.pc = "deferred",
                                   !.ticker = InputOf(i)[1],
                                   !.sent = <<"defer">>]]
    /\ UNCHANGED <<program, ready, loaded, disk, requests, figures, gcf,
                   calcVars, tickerVars>>

At(i, cog, cmd, pc) ==
    /\ inv[i].cog = cog
    /\ inv[i].cmd = cmd
    /\ inv[i].pc = pc

FullTickerOf(i) == get_full_ticker(InputOf(i)[1], InputOf(i)[2])

\* StocksCog.price up to await self.run_in_executor(self.get_price_graph, ...)
StocksPrice(i) ==
    /\ At(i, "stocks", "price", "deferred")
    /\ \E info \in InfoOutcomes :
        LET v == Validated(inv[i], FullTickerOf(i), info)
            n == IF ShortCircuits(v.valid) THEN InvalidReply(v)
                 ELSE [v EXCEPT !.pc = "submitted"]
        IN  /\ inv' = [inv EXCEPT ![i] = n]
            /\ requests' = requests \cup RequestsOf(n.ops)
    /\ UNCHANGED <<program, ready, loaded, disk, figures, gcf, calcVars,
                   tickerVars>>

\* get_price_graph on a pool thread: history(), plt.subplots and the axes
PriceGraphFetch(i) ==
    /\ At(i, "stocks", "price", "submitted")
    /\ \E fp \in 0..2 :
        LET steps == <<Op("history", "worker", "shared"),
                       Op("figure", "worker", "-")>>
            t == Tried(inv[i], steps, fp)
            n == IF fp # 0
                 THEN [t EXCEPT !.wres = "raise", !.pc = "worker_done"]
                 ELSE [t EXCEPT !.pc = "animated"]
        IN  /\ inv' = [inv EXCEPT ![i] = n]
            /\ requests' = requests \cup RequestsOf(n.ops)
            /\ figures' = IF Reached(fp, 2) THEN figures \cup {i} ELSE figures
            /\ gcf' = IF Reached(fp, 2) THEN i ELSE gcf
    /\ UNCHANGED <<program, ready, loaded, disk, calcVars, tickerVars>>

\* get_price_graph: the temporary file and anim.save into it
PriceGraphSave(i) ==
    /\ At(i, "stocks", "price", "animated")
    /\ \E ok \in BOOLEAN :
        LET t == [inv[i] EXCEPT
                      !.ops = Append(@, Op("render", "worker", "-")),
                      !.saved = i]
        IN  inv' = [inv EXCEPT ![i] =
                IF ok THEN [t EXCEPT !.pc = "saved"]
                ELSE [t EXCEPT !.wres = "raise", !.failed = TRUE,
                               !.pc = "worker_done"]]
    /\ disk' = WriteFile(disk, TempName(inv[i]), inv[i].ticker)
    /\ UNCHANGED <<program, ready, loaded, requests, figures, gcf, calcVars,
                   tickerVars>>

\* get_price_graph: read the file back, os.remove(temp_path), return
PriceGraphRead(i) ==
    /\ At(i, "stocks", "price", "saved")
    /\ \E ok \in BOOLEAN :
        LET t == [inv[i] EXCEPT !.ops = Append(@, Op("read", "worker", "-")),
                                !.pc = "worker_done"]
        IN  /\ inv' = [inv EXCEPT ![i] =
                   [t EXCEPT !.wres = IF ok THEN "ok" ELSE "raise",
                             !.failed = ~ok]]
            /\ disk' = IF ok THEN RemoveFile(disk, TempName(inv[i])) ELSE disk
    /\ UNCHANGED <<program, ready, loaded, requests, figures, gcf, calcVars,
                   tickerVars>>

\* StocksCog.price after the await: the embed, get_current_price, marketCap
StocksPriceResume(i) ==
    /\ At(i, "stocks", "price", "worker_done")
    /\ \E fp \in 0..3 :
        LET steps == <<Op("history", "event", "shared"),
                       Op("metadata", "event", "shared"),
                       Op("embed", "event", "-")>>
            n == IF inv[i].wres = "raise" THEN ErrorReply(inv[i])
                 ELSE TryExcept(inv[i], steps, fp)
        IN  /\ inv' = [inv EXCEPT ![i] = n]
            /\ requests' = requests \cup RequestsOf(n.ops)
    /\ UNCHANGED <<program, ready, loaded, disk, figures, gcf, calcVars,
                   tickerVars>>

\* StocksCog.basic_info
StocksBasicInfo(i) ==
    /\ At(i, "stocks", "basic_info", "deferred")
    /\ \E info \in InfoOutcomes, fp \in 0..2 :
        LET v == Validated(inv[i], FullTickerOf(i), info)
            steps == <<Op("metadata", "event", "shared"),
                       Op("embed", "event", "-")>>
            n == IF ShortCircuits(v.valid) THEN InvalidReply(v)
                 ELSE TryExcept(v, steps, fp)
        IN  /\ inv' = [inv EXCEPT ![i] = n]
            /\ requests' = requests \cup RequestsOf(n.ops)
    /\ UNCHANGED <<program, ready, loaded, disk, figures, gcf, calcVars,
                   tickerVars>>

\* AnalysisCog.bollinger up to await self.run_in_executor(
\* self.get_bollinger_bands_graph, ...): get_bollinger_bands is called
\* directly
AnalysisBollinger(i) ==
    /\ At(i, "analysis", "bollinger", "deferred")
    /\ \E info \in InfoOutcomes, dl \in BotDownloads :
        LET v == Validated(inv[i], FullTickerOf(i), info)
            out == AnalysisGetBollingerBands(dl)
            w == [v EXCEPT !.ops = Append(@, Op("download", "event", "shared")),
                           !.failed = out.status = "raise"]
            n == IF ShortCircuits(v.valid) THEN InvalidReply(v)
                 ELSE IF out.status = "raise" THEN ErrorReply(w)
                 ELSE [w EXCEPT !.close = dl.close, !.latest = out.latest,
                                !.graph = out.graph, !.pc = "submitted"]
        IN  /\ inv' = [inv EXCEPT ![i] = n]
            /\ requests' = requests \cup RequestsOf(n.ops)
    /\ UNCHANGED <<program, ready, loaded, disk, figures, gcf, calcVars,
                   tickerVars>>

\* get_bollinger_bands_graph on a pool thread: plt.subplots and the four
\* ax.plot calls
BollingerGraphPlot(i) ==
    /\ At(i, "analysis", "bollinger", "submitted")
    /\ \E ok \in BOOLEAN :
        LET t == [inv[i] EXCEPT !.ops = Append(@, Op("figure", "worker", "-"))]
        IN  inv' = [inv EXCEPT ![i] =
                IF ok THEN [t EXCEPT !.pc = "plotted"]
                ELSE [t EXCEPT !.wres = "raise", !.failed = TRUE,
                               !.pc = "worker_done"]]
    /\ figures' = figures \cup {i}
    /\ gcf' = i
    /\ UNCHANGED <<program, ready, loaded, disk, requests, calcVars,
                   tickerVars>>

\* get_bollinger_bands_graph: plt.savefig(image_stream) saves pyplot's
\* current figure
BollingerGraphSavefig(i) ==
    /\ At(i, "analysis", "bollinger", "plotted")
    /\ \E ok \in BOOLEAN :
        inv' = [inv EXCEPT ![i] =
                   [@ EXCEPT !.ops = Append(@, Op("render", "worker", "-")),
                             !.saved = gcf,
                             !.wres = IF ok THEN "ok" ELSE "raise",
                             !.failed = ~ok,
                             !.pc = "worker_done"]]
    /\ UNCHANGED <<program, ready, loaded, disk, requests, figures, gcf,
                   calcVars, tickerVars>>

\* AnalysisCog.bollinger after the await: the embed and the reply
AnalysisBollingerResume(i) ==
    /\ At(i, "analysis", "bollinger", "worker_done")
    /\ \E fp \in 0..1 :
        inv' = [inv EXCEPT ![i] =
                   IF inv[i].wres = "raise" THEN ErrorReply(inv[i])
                   ELSE TryExcept(inv[i], <<Op("embed", "event", "-")>>, fp)]
    /\ UNCHANGED <<program, ready, loaded, disk, requests, figures, gcf,
                   calcVars, tickerVars>>

\* AnalysisCog.analytics: get_analyst_data is called directly
AnalysisAnalytics(i) ==
    /\ At(i, "analysis", "analytics", "deferred")
    /\ \E info \in InfoOutcomes, fp \in 0..5 :
        LET v == Validated(inv[i], FullTickerOf(i), info)
            steps == AnalystSteps("event", "shared")
                         \o <<Op("embed", "event", "-")>>
            n == IF ShortCircuits(v.valid) THEN InvalidReply(v)
                 ELSE TryExcept(v, steps, fp)
        IN  /\ inv' = [inv EXCEPT ![i] = n]
            /\ requests' = requests \cup RequestsOf(n.ops)
            /\ disk' = IF ShortCircuits(v.valid) THEN disk
                       ELSE AnalystFiles(disk, v.ticker, fp)
    /\ UNCHANGED <<program, ready, loaded, figures, gcf, calcVars, tickerVars>>

\* FinanceCog.price: get_price_graph, get_current_price and marketCap are all
\* called directly
FinancePrice(i) ==
    /\ At(i, "finance", "price", "deferred")
    /\ \E info \in InfoOutcomes, fp \in 0..7 :
        LET v == Validated(inv[i], InputOf(i)[1], info)
            steps == <<Op("history", "event", "shared"),
                       Op("figure", "event", "-"), Op("render", "event", "-"),
                       Op("read", "event", "-"),
                       Op("history", "event", "shared"),
                       Op("metadata", "event", "shared"),
                       Op("embed", "event", "-")>>
            go == ~ShortCircuits(v.valid)
            t == TryExcept(v, steps, fp)
            n == IF ~go THEN InvalidReply(v)
                 ELSE [t EXCEPT !.saved = IF Reached(fp, 3) THEN i ELSE 0]
        IN  /\ inv' = [inv EXCEPT ![i] = n]
            /\ requests' = requests \cup RequestsOf(n.ops)
            /\ figures' = IF go /\ Reached(fp, 2) THEN figures \cup {i}
                          ELSE figures
            /\ gcf' = IF go /\ Reached(fp, 2) THEN i ELSE gcf
            /\ disk' = IF go /\ fp \in {3, 4}
                       THEN WriteFile(disk, TempName(v), v.ticker) ELSE disk
    /\ UNCHANGED <<program, ready, loaded, calcVars, tickerVars>>

\* FinanceCog.basic_info
FinanceBasicInfo(i) ==
    /\ At(i, "finance", "basic_info", "deferred")
    /\ \E info \in InfoOutcomes, fp \in 0..2 :
        LET v == Validated(inv[i], InputOf(i)[1], info)
            steps == <<Op("metadata", "event", "shared"),
                       Op("text", "event", "-")>>
            n == IF ShortCircuits(v.valid) THEN InvalidReply(v)
                 ELSE TryExcept(v, steps, fp)
        IN  /\ inv' = [inv EXCEPT ![i] = n]
            /\ requests' = requests \cup RequestsOf(n.ops)
    /\ UNCHANGED <<program, ready, loaded, disk, figures, gcf, calcVars,
                   tickerVars>>

\* FinanceCog.bollinger: yf.download(ticker, period="1mo", interval="1d")
\* is given no session
FinanceBollinger(i) ==
    /\ At(i, "finance", "bollinger", "deferred")
    /\ \E info \in InfoOutcomes, dl \in BotDownloads :
        LET v == Validated(inv[i], InputOf(i)[1], info)
            out == FinanceGetBollingerBands(dl)
            w == [v EXCEPT
                      !.ops = Append(@, Op("download", "event", "default")),
                      !.failed = out.status = "raise"]
            n == IF ShortCircuits(v.valid) THEN InvalidReply(v)
                 ELSE IF out.status = "raise" THEN ErrorReply(w)
                 ELSE ResultReply([w EXCEPT !.close = dl.close,
                                            !.latest = out.latest])
        IN  /\ inv' = [inv EXCEPT ![i] = n]
            /\ requests' = requests \cup RequestsOf(n.ops)
    /\ UNCHANGED <<program, ready, loaded, disk, figures, gcf, calcVars,
                   tickerVars>>

Init ==
    /\ program \in {"main.py", "bot.py"}
    /\ ready = FALSE
    /\ loaded = {}
    /\ inv = [i \in Invs |-> IdleInv]
    /\ disk = {CacheFile}
    /\ requests = {}
    /\ figures = {}
    /\ gcf = 0
    /\ series = Download(FALSE, <<>>)
    /\ calcPc = "idle"
    /\ calcOut = [status |-> "none", error |-> "", latest |-> NoLatest,
                  graph |-> <<>>]
    /\ tkIn = <<"", "">>
    /\ tkPc = "idle"
    /\ tkOut = ""

Next ==
    \/ OnReadyMain
    \/ OnReadyBot
    \/ \E i \in Invs : Defer(i)
    \/ \E i \in Invs : StocksPrice(i)
    \/ \E i \in Invs : PriceGraphFetch(i)
    \/ \E i \in Invs : PriceGraphSave(i)
    \/ \E i \in Invs : PriceGraphRead(i)
    \/ \E i \in Invs : StocksPriceResume(i)
    \/ \E i \in Invs : StocksBasicInfo(i)
    \/ \E i \in Invs : AnalysisBollinger(i)
    \/ \E i \in Invs : BollingerGraphPlot(i)
    \/ \E i \in Invs : BollingerGraphSavefig(i)
    \/ \E i \in Invs : AnalysisBollingerResume(i)
    \/ \E i \in Invs : AnalysisAnalytics(i)
    \/ \E i \in Invs : FinancePrice(i)
    \/ \E i \in Invs : FinanceBasicInfo(i)
    \/ \E i \in Invs : FinanceBollinger(i)

Spec == Init /\ [][Next]_vars

---------------------------------------------------------------------------
(* SpecCalc: the Bollinger computation applied to every generated download *)

CalcIdle ==
    /\ series = Download(FALSE, <<>>)
    /\ calcPc = "idle"
    /\ calcOut = [status |-> "none", error |-> "", latest |-> NoLatest,
                  graph |-> <<>>]

TickerIdle ==
    /\ tkIn = <<"", "">>
    /\ tkPc = "idle"
    /\ tkOut = ""

InitCalc ==
    /\ series \in {Download(FALSE, s) : s \in SeriesInputs}
                    \cup {Download(TRUE, <<>>)}
    /\ calcPc = "input"
    /\ calcOut = [status |-> "none", error |-> "", latest |-> NoLatest,
                  graph |-> <<>>]
    /\ TickerIdle
    /\ BotIdle

\* cogs/analysis.py: get_bollinger_bands
CalcAnalysis ==
    /\ calcPc = "input"
    /\ calcOut' = AnalysisGetBollingerBands(series)
    /\ calcPc' = "analysis"
    /\ UNCHANGED <<series, tickerVars, botVars>>

\* cogs/finance_cog.py: get_bollinger_bands
CalcFinance ==
    /\ calcPc = "input"
    /\ calcOut' = FinanceGetBollingerBands(series)
    /\ calcPc' = "finance"
    /\ UNCHANGED <<series, tickerVars, botVars>>

NextCalc == CalcAnalysis \/ CalcFinance

SpecCalc == InitCalc /\ [][NextCalc]_vars

---------------------------------------------------------------------------
(* SpecTicker: get_full_ticker applied to every ticker and exchange name *)

InitTicker ==
    /\ tkIn \in TickerInputs \X ExchangeInputs
    /\ tkPc = "input"
    /\ tkOut = ""
    /\ CalcIdle
    /\ BotIdle

ResolveTicker ==
    /\ tkPc = "input"
    /\ tkOut' = get_full_ticker(tkIn[1], tkIn[2])
    /\ tkPc' = "done"
    /\ UNCHANGED <<tkIn, calcVars, botVars>>

NextTicker == ResolveTicker

SpecTicker == InitTicker /\ [][NextTicker]_vars

---------------------------------------------------------------------------
(* Properties of the Bollinger computation (checked under SpecCalc) *)

CalcReturned ==
    /\ calcPc \in {"analysis", "finance"}
    /\ calcOut.status = "return"

\* the last Window prices of the download as fetched (before any trimming)
LastWindow == LastRows(series.close, Window)
WindowSum == SumRange(LastWindow, 1, Len(LastWindow))
WindowSumSq == SumSqRange(LastWindow, 1, Len(LastWindow))
\* the arithmetic mean of the last Window prices, in 1/Unit
WindowMean == (WindowSum * Unit) \div Window
\* s is the sample standard deviation (divisor Window - 1) of the last Window
\* prices, in 1/Unit, cut to the model's resolution:
\* s^2 <= sum((x - mean)^2) / (Window - 1) < (s + 1)^2
IsSampleStd(s) ==
    LET dev == (Window * WindowSumSq - WindowSum * WindowSum)
                   * ((Unit * Unit) \div Window)
    IN  /\ s >= 0
        /\ s * s * (Window - 1) <= dev
        /\ (s + 1) * (s + 1) * (Window - 1) > dev

\* x is y rounded to Decimals places: a multiple of 10^-Decimals at most half
\* a step away
IsRounded(x, y) ==
    LET q == Unit \div Pow10(Decimals)
    IN  /\ ~x.nan /\ ~y.nan
        /\ x.v % q = 0
        /\ 2 * (x.v - y.v) <= q
        /\ 2 * (y.v - x.v) <= q

\* C1 (as claimed): a non-empty download of fewer than 20 rows makes
\* get_bollinger_bands signal a failure; it never returns latest values.
C1_ShortSeriesRejected ==
    (/\ calcPc \in {"analysis", "finance"}
     /\ ~series.raised
     /\ Len(series.close) \in 1..(Window - 1))
        => calcOut.status = "raise"

\* C8: for a download of at least 20 rows the latest bands are those of the
\* last 20 prices: MA is their mean m, STD their sample standard deviation s
\* (divisor 19), Upper Band = m + 2s, Lower Band = m - 2s, symmetric about m
\* with Lower <= m <= Upper; AnalysisCog returns them rounded to 2 places,
\* FinanceCog unrounded.  For 1, 2, ..., 20: m = 10.5, s = 5.916,
\* upper = 22.33, lower = -1.33.
C8_BandsFromLastWindow ==
    (CalcReturned /\ Len(series.close) >= Window) =>
        LET m == WindowMean
            d == calcOut.latest
        IN  /\ calcPc = "analysis" =>
                LET row == calcOut.graph[Len(calcOut.graph)]
                IN  /\ row.MA = Num(m)
                    /\ ~row.STD.nan /\ IsSampleStd(row.STD.v)
                    /\ row.Upper = Num(m + BandWidth * row.STD.v)
                    /\ row.Lower = Num(m - BandWidth * row.STD.v)
                    /\ row.Upper.v - m = m - row.Lower.v
                    /\ row.Lower.v <= m /\ m <= row.Upper.v
                    /\ IsRounded(d.Upper, row.Upper)
                    /\ IsRounded(d.Lower, row.Lower)
                    /\ d.Lower.v <= d.Upper.v
            /\ calcPc = "finance" =>
                /\ ~d.Upper.nan /\ ~d.Lower.nan
                /\ d.Upper.v + d.Lower.v = 2 * m
                /\ (d.Upper.v - d.Lower.v) % (2 * BandWidth) = 0
                /\ IsSampleStd((d.Upper.v - d.Lower.v) \div (2 * BandWidth))
                /\ d.Lower.v <= m /\ m <= d.Upper.v
            /\ series.close = [i \in 1..20 |-> i] =>
                /\ m = 10500
                /\ Window * WindowSumSq - WindowSum * WindowSum
                       = 35 * Window * (Window - 1)
                /\ calcPc = "analysis" =>
                       /\ calcOut.graph[Len(calcOut.graph)].STD = Num(5916)
                       /\ d.Upper = Num(22330) /\ d.Lower = Num(-1330)
                /\ calcPc = "finance" =>
                       d.Upper = Num(22332) /\ d.Lower = Num(-1332)

C8_Witness ==
    /\ calcPc = "analysis"
    /\ series.close = [i \in 1..20 |-> i]
    /\ calcOut.status = "return"
    /\ calcOut.latest.Upper = Num(22330)
    /\ calcOut.latest.Lower = Num(-1330)

IsConstant(c) == \A i \in 1..Len(c) : c[i] = c[1]

\* C9: for a download of at least 20 rows that all close at the same price
\* C, the moving average is C, the standard deviation is 0, and the reported
\* Upper Band and Lower Band both equal C, the reported Close.
C9_ConstantSeries ==
    (/\ CalcReturned
     /\ Len(series.close) >= Window
     /\ IsConstant(series.close)) =>
        LET C == Num(series.close[1] * Unit)
            d == calcOut.latest
        IN  /\ d.Close = C /\ d.Upper = C /\ d.Lower = C
            /\ calcPc = "analysis" =>
                   /\ calcOut.graph[Len(calcOut.graph)].MA = C
                   /\ calcOut.graph[Len(calcOut.graph)].STD = Num(0)

C9_Witness ==
    /\ calcPc = "analysis"
    /\ calcOut.status = "return"
    /\ Len(series.close) > TrimRows
    /\ IsConstant(series.close)
    /\ series.close[1] = MaxPrice
    /\ calcOut.latest.Upper = calcOut.latest.Close
    /\ calcOut.latest.Lower = calcOut.latest.Close

---------------------------------------------------------------------------
(* Properties of ticker resolution (checked under SpecTicker) *)

\* C10: get_full_ticker returns the ticker unchanged for NYSE and NASDAQ,
\* the ticker followed by exactly the table's suffix for every other exchange
\* of the table, and the ticker unchanged for a name that is not in the
\* table; the ticker part is never altered.
C10_FullTicker ==
    tkPc = "done" =>
        LET t == tkIn[1]
            e == tkIn[2]
        IN  /\ e \in {"NYSE", "NASDAQ"} => tkOut = t
            /\ e = "Euronext Paris" => tkOut = t \o ".PA"
            /\ e = "BÃ¶rse Frankfurt" => tkOut = t \o ".F"
            /\ e = "London Stock Exchange" => tkOut = t \o ".L"
            /\ e = "BSE" => tkOut = t \o ".BO"
            /\ e = "Tokyo Stock Exchange" => tkOut = t \o ".T"
            /\ e = "Toronto Stock Exchange" => tkOut = t \o ".TO"
            /\ e = "Hong Kong Stock Exchange" => tkOut = t \o ".HK"
            /\ e \in {"Unknown Exchange", "nyse"} => tkOut = t
            /\ Len(tkOut) >= Len(t) /\ SubSeq(tkOut, 1, Len(t)) = t
            /\ (t = "AAPL" /\ e = "NYSE") => tkOut = "AAPL"
            /\ (t = "7203" /\ e = "Tokyo Stock Exchange") => tkOut = "7203.T"

C10_Witness ==
    /\ tkPc = "done"
    /\ tkIn = <<"7203", "Tokyo Stock Exchange">>
    /\ tkOut = "7203.T"

---------------------------------------------------------------------------
(* Properties of the command handlers (checked under Spec) *)

Finished(i) == inv[i].pc = "done"
LastSent(i) == inv[i].sent[Len(inv[i].sent)]
OpsOf(i) == {inv[i].ops[k] : k \in 1..Len(inv[i].ops)}

\* C2: in every command, when validation returns false the handler sends
\* the invalid-ticker message and finishes having issued nothing but the
\* validation; every other operation of an invocation comes after a
\* validation that returned true.
C2_InvalidShortCircuits ==
    \A i \in Invs :
        /\ inv[i].ops # <<>> => inv[i].ops[1].op = "validate"
        /\ (\E o \in OpsOf(i) : o.op # "validate") => inv[i].valid
        /\ (inv[i].ops # <<>> /\ ~inv[i].valid) =>
               /\ Finished(i)
               /\ inv[i].sent = <<"defer", "invalid">>
               /\ Len(inv[i].ops) = 1
               /\ inv[i].wres = "none" /\ inv[i].saved = 0

C2_Witness ==
    \E i \in Invs :
        /\ Finished(i)
        /\ inv[i].cmd = "bollinger"
        /\ ~inv[i].valid
        /\ inv[i].sent = <<"defer", "invalid">>

\* C3 (as claimed): when a price command has finished, the temporary GIF
\* file its get_price_graph created is no longer on disk.
C3_TempFilesDeleted ==
    \A i \in Invs :
        (Finished(i) /\ inv[i].cmd = "price") =>
            ~\E f \in disk : f.name = TempName(inv[i])

\* C4: a failure raised during validation, fetch, computation, rendering or
\* embed construction never leaves the handler: the invocation finishes with
\* a message sent after the acknowledgment, and that message is the error
\* message whenever a step inside the try block (or on the pool thread)
\* raised.
C4_FailuresReported ==
    \A i \in Invs :
        /\ ~inv[i].raised
        /\ Finished(i) =>
               /\ Len(inv[i].sent) = 2
               /\ LastSent(i) \in {"invalid", "error", "result"}
               /\ inv[i].failed => LastSent(i) = "error"
               /\ inv[i].wres = "raise" => LastSent(i) = "error"
               /\ LastSent(i) = "invalid" => ~inv[i].valid

C4_Witness ==
    \E i \in Invs :
        /\ Finished(i)
        /\ inv[i].cmd = "price" /\ inv[i].cog = "stocks"
        /\ inv[i].wres = "raise"
        /\ inv[i].sent = <<"defer", "error">>

\* C5 (as claimed): every provider request of the process is made with the
\* shared rate-limited session.
C5_AllRequestsThroughSharedSession ==
    \A q \in requests : q.session = "shared"

\* C6 (as claimed): every history fetch, bulk download and chart or
\* animation rendering of a command runs on a pool thread.
C6_FetchAndRenderOnWorker ==
    \A i \in Invs : \A o \in OpsOf(i) :
        o.op \in {"history", "download", "render"} => o.thread = "worker"

Quiescent == ready /\ \A i \in Invs : inv[i].pc \in {"idle", "done"}

\* C7 (as claimed): once every invocation has finished, the disk holds only
\* the session's cache and what the startup of the process wrote (the CSV
\* files of the import-time get_analyst_data("AAPL")).
C7_NothingKept ==
    Quiescent =>
        \A f \in disk :
            \/ f = CacheFile
            \/ f \in {File("financials.csv", "AAPL"), File("actions.csv", "AAPL")}

---------------------------------------------------------------------------
(* Properties of repeated and concurrent bollinger commands (checked under
   Spec) *)

\* invocation i is a bollinger command whose computation returned
Computed(i) == inv[i].cmd = "bollinger" /\ inv[i].close # <<>>

FollowUps == {"invalid", "result", "error"}

\* C14: in every command invocation the acknowledgment (defer) is the first
\* message and is sent before validation and before any provider call: an
\* invocation's operations are only ever extended from a state in which its
\* defer has been sent.  While the handler runs nothing else is sent, and
\* when it has finished exactly one follow-up has been delivered after the
\* defer: the invalid-ticker message, the result or the error message.
C14_DeferThenOneFollowUp ==
    /\ [](\A i \in Invs :
            /\ inv[i].pc = "idle" => inv[i].sent = <<>> /\ inv[i].ops = <<>>
            /\ inv[i].pc \notin {"idle", "done"} => inv[i].sent = <<"defer">>
            /\ inv[i].pc = "done" =>
                   /\ Len(inv[i].sent) = 2
                   /\ inv[i].sent[1] = "defer"
                   /\ inv[i].sent[2] \in FollowUps)
    /\ [][\A i \in Invs :
            inv'[i].ops # inv[i].ops =>
                /\ inv[i].sent = <<"defer">>
                /\ SubSeq(inv'[i].sent, 1, 1) = <<"defer">>]_vars

\* one invocation answered with a result after validation and provider
\* calls, another answered with the error message after a failed call
C14_Witness ==
    /\ inv[1].pc = "done" /\ inv[1].sent = <<"defer", "result">>
    /\ Len(inv[1].ops) >= 2 /\ inv[1].ops[1].op = "validate"
    /\ inv[2].pc = "done" /\ inv[2].sent = <<"defer", "error">>
    /\ inv[2].failed

\* invocation i is a bollinger command of AnalysisCog
IsBollinger(i) == inv[i].cog = "analysis" /\ inv[i].cmd = "bollinger"

\* C15 (as claimed): when two bollinger commands for different tickers run,
\* whatever the interleaving of their worker threads, the image one of them
\* saved in get_bollinger_bands_graph is never the figure that the other
\* command created.
C15_OwnFigureSaved ==
    \A i, j \in Invs :
        (/\ i # j
         /\ IsBollinger(i) /\ IsBollinger(j)
         /\ inv[i].ticker # inv[j].ticker
         /\ inv[i].wres = "ok")
            => inv[i].saved # j

---------------------------------------------------------------------------
(* Further properties of the Bollinger computation (checked under SpecCalc) *)

\* the keys of an indicator result: closing price, moving average, upper band
\* and lower band
IndicatorFields == {"Close", "MA", "Upper", "Lower"}

\* C12 (as claimed): the latest result returned for a series of at least 20
\* rows holds all four fields, the moving average of the most recent row
\* among them.
C12_LatestHasFourFields ==
    (CalcReturned /\ Len(series.close) >= Window)
        => IndicatorFields \subseteq DOMAIN calcOut.latest

\* x, a displayed value, has at most Decimals decimal places
HasDecimals(x) == ~x.nan /\ x.v % (Unit \div Pow10(Decimals)) = 0

\* C13 (as claimed): for a series of at least 20 rows every displayed value
\* (closing price, upper and lower band of the latest result) is rounded to 2
\* decimal places, while the rows of the chart slice keep the unrounded
\* values: each band there is exactly MA +/- 2 STD of the unrounded MA and
\* STD, and the displayed band is the slice's band rounded.
C13_RoundedOnlyForDisplay ==
    (CalcReturned /\ Len(series.close) >= Window) =>
        LET d == calcOut.latest
            g == calcOut.graph
        IN  /\ HasDecimals(d.Close)
            /\ HasDecimals(d.Upper)
            /\ HasDecimals(d.Lower)
            /\ calcPc = "analysis" =>
                   LET last == g[Len(g)]
                   IN  /\ last.Upper = Num(last.MA.v + BandWidth * last.STD.v)
                       /\ last.Lower = Num(last.MA.v - BandWidth * last.STD.v)
                       /\ IsRounded(d.Upper, last.Upper)
                       /\ IsRounded(d.Lower, last.Lower)

\* the moving average and both bands of a row are defined
Populated(row) == ~row.MA.nan /\ ~row.Upper.nan /\ ~row.Lower.nan

\* C16 (as claimed): for a download of at least 20 rows every row of the
\* trailing slice AnalysisCog.get_bollinger_bands returns for charting has a
\* defined moving average, upper band and lower band, and the latest values
\* reported are those of the last row of the slice (rounded for display).
C16_SliceFullyPopulated ==
    (/\ calcPc = "analysis"
     /\ calcOut.status = "return"
     /\ Len(series.close) >= Window)
        => /\ \A k \in 1..Len(calcOut.graph) : Populated(calcOut.graph[k])
           /\ calcOut.latest = RoundLatest(LatestOf(calcOut.graph))

\* the latest values computed from the full download, without the trim to
\* the last 40 rows, with the same window and the same rounding
UntrimmedLatest == RoundLatest(LatestOf(BollingerFrame(series.close)))

\* C17: trimming the download to its last 40 rows before the rolling
\* computation does not change the reported result: the latest Close, Upper
\* Band and Lower Band AnalysisCog.get_bollinger_bands returns equal those
\* computed from the full untrimmed series with the same window of 20 (both
\* are undefined for a series of fewer than 20 rows).
C17_TrimKeepsLatest ==
    (calcPc = "analysis" /\ calcOut.status = "return")
        => calcOut.latest = UntrimmedLatest

\* a download longer than 40 rows whose trimmed-away rows differ from the
\* kept ones, with defined bands
C17_Witness ==
    /\ calcPc = "analysis" /\ calcOut.status = "return"
    /\ Len(series.close) > TrimRows
    /\ series.close[1] # series.close[Len(series.close)]
    /\ ~calcOut.latest.Upper.nan
    /\ calcOut.latest.Upper # calcOut.latest.Lower

====
